---- MODULE Spec2Model ----
(***************************************************************************)
(* Model of the Monte Carlo trading simulator's pooled run                 *)
(* (src/monte_carlo_trading/src/monte_carlo_trading.tsx, runSimulation)    *)
(* and of the batch worker's message contract (simulationWorker.ts).       *)
(*                                                                         *)
(* The main thread is a JavaScript event loop: every handler (the body of  *)
(* runSimulation, onMessage, w.onerror, the Promise.all continuation, the  *)
(* chart worker's onmessage) runs to completion, so each is one action.    *)
(* The workers run in parallel threads: a worker computing its batch and   *)
(* posting the response is an action of its own (WorkerRun).               *)
(*                                                                         *)
(* Capital values are modelled as integers and the arithmetic on them is   *)
(* exact; IEEE rounding of the running sum is not modelled.                *)
(*                                                                         *)
(* A second specification, GenSpec, models the trajectory generator        *)
(* runChunk of simulationWorker.ts one loop iteration at a time, and the   *)
(* deterministic extremes of monte_carlo_trading.tsx as operators.  Money  *)
(* there is an exact fixed-point number (an integer count of 1/Scale       *)
(* dollars); IEEE rounding is not modelled.                                *)
(***************************************************************************)
EXTENDS Integers, Sequences, FiniteSets, Bags, TLC

\* ---------------------------------------------------------------- bounds

\* params.simulations ranges over 0..MaxSims
MaxSims == 5
\* final capitals returned by a worker range over 0..MaxCapital
MaxCapital == 2
\* batchSize is 20000 in the source (monte_carlo_trading.tsx:68); the model
\* scales it down so that several batches exist within MaxSims simulations
batchSize == 2
\* the reservoir capacity cap is 20000 in the source (Math.min(20000, totalSims),
\* monte_carlo_trading.tsx:72); scaled down so that replacements happen
reservoirCap == 2
\* the cap on the chart sample is 1000 in the source (Math.min(1000,
\* params.simulations), monte_carlo_trading.tsx:280); scaled down so that it
\* binds within MaxSims simulations
chartSimsCap == 3
\* params.timeMonths of a chart job ranges over 0..MaxChartMonths
MaxChartMonths == 1
\* Number.prototype.toFixed(8) in the source (rrr_calculator.tsx:34-48);
\* scaled down so that amounts of the model have more decimals than it keeps
fixedDigits == 1
\* the arguments of computeTargets carry up to MaxDigits decimals
MaxDigits == 2
\* params.tradesPerMonth ranges over 0..MaxTradesPerMonth
MaxTradesPerMonth == 2
\* params.timeMonths ranges over 0..MaxMonths
MaxMonths == 12
\* the generator is run for params with tradesPerMonth * timeMonths <= MaxTrades
MaxTrades == 12

\* --------------------------------------------------- program constants

\* Number.POSITIVE_INFINITY / Number.NEGATIVE_INFINITY: sentinels outside
\* the range of every capital value and every sum of the model
POSITIVE_INFINITY == 1000000
NEGATIVE_INFINITY == -1000000
\* navigator.hardwareConcurrency ?? 4
defaultHardwareConcurrency == 4
\* Math.min(Math.max(1, hw), 8)
maxWorkersCap == 8

\* values navigator.hardwareConcurrency can take; 0 stands for `undefined`
HwChoices == {0, 1, 2, 16}

Values == 0..MaxCapital

VARIABLES
    simulations,       \* params.simulations (the input of the run)
    hardwareConcurrency, \* navigator.hardwareConcurrency (0: undefined)
    phase,             \* "idle" | "pool" | "chart" | "done" | "hung"
    results,           \* React state `results` (NoResults: null)
    isRunning,         \* React state `isRunning`
    errorMsg,          \* React state `errorMsg` ("null": null)
    progress,          \* React state `progress` {done, total}
    stats,             \* closure variables sum, seen, minVal, maxVal, reservoir
    nextStart,         \* closure variable nextStart
    completedBatches,  \* closure variable completedBatches
    workers,           \* the pool: one record per spawned worker
    summary,           \* the summary object built by the Promise.all continuation
    claimed,           \* history: the ranges handed out by getNextBatch
    produced,          \* history: bag of the final capitals workers returned
    errorsSurfaced,    \* history: number of setErrorMsg(<message>) calls
    failed             \* history: some pool worker failed in this run

poolVars == <<simulations, hardwareConcurrency, phase, results, isRunning, errorMsg,
          progress, stats, nextStart, completedBatches, workers, summary,
          claimed, produced, errorsSurfaced, failed>>

\* the state of one call of runChunk (simulationWorker.ts)
VARIABLES
    gp,                    \* the Params runChunk was called with
    gpc,                   \* position: "idle" | "loop" | "pushed" | "done"
    capital,               \* let capital
    currentRiskPerTrade,   \* let currentRiskPerTrade
    currentRewardPerTrade, \* let currentRewardPerTrade
    month,                 \* loop variable month
    trade,                 \* loop variable trade
    monthlyData,           \* const monthlyData
    lastTrade              \* history: the outcome of the last trade of this simulation

genVars == <<gp, gpc, capital, currentRiskPerTrade, currentRewardPerTrade,
             month, trade, monthlyData, lastTrade>>

\* the state of one chart-path job: fetchChartPaths and the worker's 'paths' branch
VARIABLES
    formParams,   \* React state `params` (the form)
    runParams,    \* the `params` fetchChartPaths was called with
    chartPc,      \* "idle" | "posted" | "answered" | "resolved" | "thrown" | "lost"
    chartReq,     \* the WorkerRequest posted to the chart worker
    simResults,   \* the worker's const simResults
    sortedResults, \* the worker's const sorted
    pathsMsg,     \* the paths of the PathsResponse posted by the worker
    chartData     \* the chartData the promise resolved with

chartVars == <<formParams, runParams, chartPc, chartReq, simResults, sortedResults,
               pathsMsg, chartData>>

\* the state of the RRR calculator (rrr_calculator.tsx)
VARIABLES
    calcArgs,     \* the arguments of computeTargets
    calcResult    \* the value computeTargets returned

calcVars == <<calcArgs, calcResult>>

vars == <<poolVars, genVars, chartVars, calcVars>>

\* the worker before it has received a message
NoParams == [initialCapital |-> 0, riskPercentage |-> 0, riskRewardRatio |-> 1,
             winRate |-> 0, tradesPerMonth |-> 0, timeMonths |-> 0,
             riskCapDollars |-> 0, compoundingFrequency |-> "undefined"]

GenIdle ==
    /\ gp = NoParams
    /\ gpc = "idle"
    /\ capital = 0
    /\ currentRiskPerTrade = 0
    /\ currentRewardPerTrade = 0
    /\ month = 0
    /\ trade = 0
    /\ monthlyData = <<>>
    /\ lastTrade = "none"

NoRequest == [kind |-> "none"]

\* no chart job has been started
ChartIdle ==
    /\ formParams = NoParams
    /\ runParams = NoParams
    /\ chartPc = "idle"
    /\ chartReq = NoRequest
    /\ simResults = <<>>
    /\ sortedResults = <<>>
    /\ pathsMsg = <<>>
    /\ chartData = <<>>

\* computeTargets has not been called
CalcIdle ==
    /\ calcArgs = [accountBalance |-> 0, riskPercent |-> 0, entryPrice |-> 0,
                   stopLossPrice |-> 0, isLong |-> TRUE]
    /\ calcResult = [kind |-> "none"]

\* ------------------------------------------------------------- helpers

Min2(a, b) == IF a <= b THEN a ELSE b
Max2(a, b) == IF a >= b THEN a ELSE b

\* Math.ceil(a / b) for a >= 0, b > 0
CeilDiv(a, b) == (a + b - 1) \div b

RECURSIVE SumSeq(_)
SumSeq(s) == IF s = <<>> THEN 0 ELSE Head(s) + SumSeq(Tail(s))

RECURSIVE SumBag(_)
SumBag(b) ==
    IF DOMAIN b = {} THEN 0
    ELSE LET v == CHOOSE x \in DOMAIN b : TRUE
         IN  v * b[v] + SumBag([x \in (DOMAIN b) \ {v} |-> b[x]])

SeqToBag(s) == [v \in {s[i] : i \in DOMAIN s} |-> Cardinality({i \in DOMAIN s : s[i] = v})]

NoMsg == [kind |-> "none", finals |-> <<>>]
NoResults == [kind |-> "null"]

\* ------------------------------------------------- runSimulation: setup

totalSims == simulations
sampleSize == Min2(reservoirCap, totalSims)
totalBatches == CeilDiv(totalSims, batchSize)
hw == IF hardwareConcurrency = 0 THEN defaultHardwareConcurrency ELSE hardwareConcurrency
maxWorkers == Min2(Max2(1, hw), maxWorkersCap)
\* mutant of poolSize: the number of batches is ignored
poolSize_HardwareOnly == maxWorkers

\* mutant of poolSize: one worker per batch, the concurrency limit is ignored
poolSize_PerBatch == totalBatches
poolSize == Min2(maxWorkers, totalBatches)

InitialStats ==
    [sum |-> 0, seen |-> 0, minVal |-> POSITIVE_INFINITY,
     maxVal |-> NEGATIVE_INFINITY, reservoir |-> <<>>]

\* mutant of GetNextBatch: always hands out a full batch, forgetting `remaining`
GetNextBatch_FullBatch(ns) ==
    IF ns >= totalSims THEN 0 ELSE batchSize

\* getNextBatch: the number of simulations taken at cursor ns (0: none left)
GetNextBatch(ns) ==
    IF ns >= totalSims THEN 0
    ELSE Min2(batchSize, totalSims - ns)

\* the worker thread's state after the coordinator's first getNextBatch
SpawnedWorker(take) ==
    IF take > 0
    THEN [status |-> "busy", sims |-> take, msg |-> NoMsg,
          terminated |-> FALSE, resolved |-> FALSE, batches |-> 1, aggregated |-> 0]
    ELSE [status |-> "dead", sims |-> 0, msg |-> NoMsg,
          terminated |-> TRUE, resolved |-> TRUE, batches |-> 0, aggregated |-> 0]

\* the spawn loop `for (let i = 0; i < poolSize; i++)`
RECURSIVE SpawnPool(_, _, _, _)
SpawnPool(i, ns, ws, cl) ==
    IF i >= poolSize THEN [nextStart |-> ns, workers |-> ws, claimed |-> cl]
    ELSE LET take == GetNextBatch(ns)
         IN  SpawnPool(i + 1, ns + take, Append(ws, SpawnedWorker(take)),
                       IF take > 0 THEN Append(cl, <<ns, take>>) ELSE cl)

Init ==
    /\ simulations \in 0..MaxSims
    /\ hardwareConcurrency \in HwChoices
    /\ phase = "idle"
    /\ results = NoResults
    /\ isRunning = FALSE
    /\ errorMsg = "null"
    /\ progress = [done |-> 0, total |-> 0]
    /\ stats = InitialStats
    /\ nextStart = 0
    /\ completedBatches = 0
    /\ workers = <<>>
    /\ summary = NoResults
    /\ claimed = <<>>
    /\ produced = EmptyBag
    /\ errorsSurfaced = 0
    /\ failed = FALSE
    /\ GenIdle
    /\ ChartIdle
    /\ CalcIdle

\* runSimulation, its synchronous body up to the registration of Promise.all
RunSimulation ==
    /\ phase = "idle"
    /\ LET pool == SpawnPool(0, 0, <<>>, <<>>)
       IN  /\ nextStart' = pool.nextStart
           /\ workers' = pool.workers
           /\ claimed' = pool.claimed
    /\ isRunning' = TRUE
    /\ errorMsg' = "null"
    /\ progress' = [done |-> 0, total |-> totalBatches]
    /\ stats' = InitialStats
    /\ completedBatches' = 0
    /\ phase' = "pool"
    /\ UNCHANGED <<simulations, hardwareConcurrency, results, summary,
                   produced, errorsSurfaced, failed>>
    /\ UNCHANGED <<genVars, chartVars, calcVars>>

\* ------------------------------------------------------ batch workers

\* simulationWorker.ts, self.onmessage for kind 'finals': runChunk produces one
\* final capital per requested simulation (each drawn from Values here) and
\* the worker posts them as {kind: 'finals', finals}
WorkerRun(w) ==
    /\ phase = "pool"
    /\ workers[w].status = "busy"
    /\ \E finals \in [1..workers[w].sims -> Values] :
          /\ workers' = [workers EXCEPT ![w].status = "posted",
                                        ![w].msg = [kind |-> "finals", finals |-> finals]]
          /\ produced' = produced (+) SeqToBag(finals)
    /\ UNCHANGED <<simulations, hardwareConcurrency, phase, results, isRunning,
                   errorMsg, progress, stats, nextStart, completedBatches, summary,
                   claimed, errorsSurfaced, failed>>
    /\ UNCHANGED <<genVars, chartVars, calcVars>>

\* fault injection: a response that does not have the shape {kind: 'finals', finals}
WorkerPostsMalformed(w) ==
    /\ phase = "pool"
    /\ workers[w].status = "busy"
    /\ workers' = [workers EXCEPT ![w].status = "posted",
                                  ![w].msg = [kind |-> "malformed", finals |-> <<>>]]
    /\ UNCHANGED <<simulations, hardwareConcurrency, phase, results, isRunning,
                   errorMsg, progress, stats, nextStart, completedBatches, summary,
                   claimed, produced, errorsSurfaced, failed>>
    /\ UNCHANGED <<genVars, chartVars, calcVars>>

\* -------------------------------------------------- streaming aggregation

\* mutant of Draws: the index is drawn before `seen += 1`, from [0, seen - 1)
Draws_BeforeIncrement(st) ==
    IF Len(st.reservoir) < sampleSize THEN {0} ELSE 0..(st.seen - 1)

\* the values Math.floor(Math.random() * seen) can take for the next value:
\* a draw happens only when the reservoir is full (seen is already incremented)
Draws(st) ==
    IF Len(st.reservoir) < sampleSize THEN {0} ELSE 0..st.seen

\* mutant of ReservoirUpdate: only the first value is appended; every later
\* one is written at the drawn index, whether the reservoir is full or not
ReservoirUpdate_AlwaysReplace(reservoir, v, j) ==
    IF reservoir = <<>>
    THEN Append(reservoir, v)
    ELSE IF j < sampleSize
         THEN [reservoir EXCEPT ![j + 1] = v]
         ELSE reservoir

\* mutant of ReservoirUpdate: `<=` for `<` in the capacity test
ReservoirUpdate_OffByOne(reservoir, v, j) ==
    IF Len(reservoir) <= sampleSize
    THEN Append(reservoir, v)
    ELSE IF j < sampleSize
         THEN [reservoir EXCEPT ![j + 1] = v]
         ELSE reservoir

\* the reservoir update of one value v with random index j (lines 128-133)
ReservoirUpdate(reservoir, v, j) ==
    IF Len(reservoir) < sampleSize
    THEN Append(reservoir, v)
    ELSE IF j < sampleSize
         THEN [reservoir EXCEPT ![j + 1] = v]
         ELSE reservoir

\* mutant of Observe: `else if` chains the max test to the min test
Observe_ElseIfMax(st, v, j) ==
    [sum       |-> st.sum + v,
     seen      |-> st.seen + 1,
     minVal    |-> IF v < st.minVal THEN v ELSE st.minVal,
     maxVal    |-> IF v < st.minVal THEN st.maxVal
                   ELSE IF v > st.maxVal THEN v ELSE st.maxVal,
     reservoir |-> ReservoirUpdate(st.reservoir, v, j)]

\* one iteration of the loop over finals (lines 123-133)
Observe(st, v, j) ==
    [sum       |-> st.sum + v,
     seen      |-> st.seen + 1,
     minVal    |-> IF v < st.minVal THEN v ELSE st.minVal,
     maxVal    |-> IF v > st.maxVal THEN v ELSE st.maxVal,
     reservoir |-> ReservoirUpdate(st.reservoir, v, j)]

\* the loop `for (let k = 0; k < finals.length; k++)`: every outcome of the
\* random draws, starting from the set S of states before value k
RECURSIVE AggregateFrom(_, _, _)
AggregateFrom(finals, k, S) ==
    IF k > Len(finals) THEN S
    ELSE AggregateFrom(finals, k + 1,
             UNION {{Observe(st, finals[k], j) : j \in Draws(st)} : st \in S})

\* mutant of Aggregate: the loop stops after finals[0]
Aggregate_FirstOnly(finals, st) ==
    AggregateFrom(IF finals = <<>> THEN finals ELSE <<finals[1]>>, 1, {st})

\* mutant of Aggregate: the loop starts at k = 1, skipping finals[0]
Aggregate_SkipFirst(finals, st) == AggregateFrom(finals, 2, {st})

Aggregate(finals, st) == AggregateFrom(finals, 1, {st})

\* the shape test of onMessage (line 110)
WellFormed(msg) == msg.kind = "finals"

\* what onMessage does with the worker after aggregating its batch:
\* post the next batch (nextSims > 0) or terminate and resolve
WorkerAfterBatch(wk, nextSims) ==
    IF nextSims > 0
    THEN [wk EXCEPT !.status = "busy", !.sims = nextSims, !.msg = NoMsg,
                    !.batches = @ + 1, !.aggregated = @ + 1]
    ELSE [wk EXCEPT !.status = "dead", !.sims = 0, !.msg = NoMsg,
                    !.terminated = TRUE, !.resolved = TRUE, !.aggregated = @ + 1]

\* what the failure branches do with the worker: terminate it and resolve
WorkerAfterFailure(wk) ==
    [wk EXCEPT !.status = "dead", !.sims = 0, !.msg = NoMsg,
               !.terminated = TRUE, !.resolved = TRUE]

\* mutant of ProgressAfterBatch: the `+ 1` is missing
ProgressAfterBatch_NoIncrement(prev) ==
    [prev EXCEPT !.done = Min2(prev.done, prev.total)]

\* setProgress(prev => ({ ...prev, done: Math.min(prev.done + 1, prev.total) }))
ProgressAfterBatch(prev) ==
    [prev EXCEPT !.done = Min2(prev.done + 1, prev.total)]

\* onMessage of pool worker w (lines 108-160)
OnMessage(w) ==
    /\ phase = "pool"
    /\ workers[w].status = "posted"
    /\ ~workers[w].terminated
    /\ IF ~WellFormed(workers[w].msg)
       THEN /\ errorMsg' = "Unexpected worker response received."
            /\ errorsSurfaced' = errorsSurfaced + 1
            /\ failed' = TRUE
            /\ workers' = [workers EXCEPT ![w] = WorkerAfterFailure(@)]
            /\ UNCHANGED <<stats, completedBatches, progress, nextStart, claimed>>
       ELSE /\ stats' \in Aggregate(workers[w].msg.finals, stats)
            /\ completedBatches' = completedBatches + 1
            /\ progress' = ProgressAfterBatch(progress)
            /\ LET nextSims == GetNextBatch(nextStart)
               IN  /\ nextStart' = nextStart + nextSims
                   /\ claimed' = IF nextSims > 0
                                 THEN Append(claimed, <<nextStart, nextSims>>)
                                 ELSE claimed
                   /\ workers' = [workers EXCEPT ![w] = WorkerAfterBatch(@, nextSims)]
            /\ UNCHANGED <<errorMsg, errorsSurfaced, failed>>
    /\ UNCHANGED <<simulations, hardwareConcurrency, phase, results, isRunning,
                   summary, produced>>
    /\ UNCHANGED <<genVars, chartVars, calcVars>>

\* w.onerror of pool worker w (lines 163-169): the worker raised a runtime fault
OnError(w) ==
    /\ phase = "pool"
    /\ workers[w].status = "busy"
    /\ ~workers[w].terminated
    /\ errorMsg' = "A worker encountered an error."
    /\ errorsSurfaced' = errorsSurfaced + 1
    /\ failed' = TRUE
    /\ workers' = [workers EXCEPT ![w] = WorkerAfterFailure(@)]
    /\ UNCHANGED <<simulations, hardwareConcurrency, phase, results, isRunning,
                   progress, stats, nextStart, completedBatches, summary,
                   claimed, produced>>
    /\ UNCHANGED <<genVars, chartVars, calcVars>>

\* ------------------------------------------------------- finalization

\* mutant of SortAscending: comparator (a, b) => b - a
SortAscending_Descending(s) == SortSeq(s, LAMBDA a, b : a > b)

\* reservoir.sort((a, b) => a - b)
SortAscending(s) == SortSeq(s, LAMBDA a, b : a < b)

\* mutant of Pick: Math.ceil for Math.floor
Pick_Ceil(sorted, pct) ==
    LET idx == (Len(sorted) * pct + 99) \div 100
    IN  IF idx + 1 \in DOMAIN sorted THEN sorted[idx + 1] ELSE 0

\* pick(p) on the sorted reservoir, p given in percent:
\* reservoir[Math.floor(reservoir.length * p)] ?? 0
Pick(sorted, pct) ==
    LET idx == (Len(sorted) * pct) \div 100
    IN  IF idx + 1 \in DOMAIN sorted THEN sorted[idx + 1] ELSE 0

\* mean = seen > 0 ? sum / seen : 0, kept as the fraction num/den
Mean(st) ==
    IF st.seen > 0 THEN [num |-> st.sum, den |-> st.seen] ELSE [num |-> 0, den |-> 1]

\* the summary object (lines 199-215)
Summarize(st) ==
    LET sorted == SortAscending(st.reservoir)
    IN  [kind         |-> "summary",
         mean         |-> Mean(st),
         median       |-> Pick(sorted, 50),
         percentile25 |-> Pick(sorted, 25),
         percentile75 |-> Pick(sorted, 75),
         percentile10 |-> Pick(sorted, 10),
         percentile90 |-> Pick(sorted, 90),
         worst        |-> IF st.minVal = POSITIVE_INFINITY THEN 0 ELSE st.minVal,
         best         |-> IF st.maxVal = NEGATIVE_INFINITY THEN 0 ELSE st.maxVal]

\* mutant of AllResolved: Promise.race / Promise.any instead of Promise.all
AllResolved_Any == \E w \in DOMAIN workers : workers[w].resolved

\* Promise.all(workerPromises): every worker promise is resolved
AllResolved == \A w \in DOMAIN workers : workers[w].resolved

\* the continuation of Promise.all(workerPromises) (lines 197-246): computes the
\* summary and starts the chart-path job
Finalize ==
    /\ phase = "pool"
    /\ AllResolved
    /\ summary' = Summarize(stats)
    /\ stats' = [stats EXCEPT !.reservoir = SortAscending(@)]
    /\ phase' = "chart"
    /\ UNCHANGED <<simulations, hardwareConcurrency, results, isRunning, errorMsg,
                   progress, nextStart, completedBatches, workers, claimed,
                   produced, errorsSurfaced, failed>>
    /\ UNCHANGED <<genVars, chartVars, calcVars>>

\* sims = Math.min(1000, params.simulations) of fetchChartPaths
chartSims == Min2(chartSimsCap, simulations)

\* the chart worker answered (lines 281-295, 246-250): with at least one
\* simulated path the chart data resolves and the results are published; with
\* none the five picked paths are undefined, the handler throws on
\* p.monthlyData and the promise never settles
ChartMessage ==
    /\ phase = "chart"
    /\ IF chartSims >= 1
       THEN /\ results' = summary
            /\ isRunning' = FALSE
            /\ phase' = "done"
       ELSE /\ phase' = "hung"
            /\ UNCHANGED <<results, isRunning>>
    /\ UNCHANGED <<simulations, hardwareConcurrency, errorMsg, progress, stats,
                   nextStart, completedBatches, workers, summary, claimed,
                   produced, errorsSurfaced, failed>>
    /\ UNCHANGED <<genVars, chartVars, calcVars>>

\* the chart worker raises an error: fetchChartPaths sets no onerror and
\* its promise has no reject path, so nothing runs on the main thread and
\* the promise never settles
ChartWorkerError ==
    /\ phase = "chart"
    /\ phase' = "hung"
    /\ UNCHANGED <<simulations, hardwareConcurrency, results, isRunning, errorMsg,
                   progress, stats, nextStart, completedBatches, workers, summary,
                   claimed, produced, errorsSurfaced, failed>>
    /\ UNCHANGED <<genVars, chartVars, calcVars>>

Next ==
    \/ RunSimulation
    \/ \E w \in DOMAIN workers : WorkerRun(w)
    \/ \E w \in DOMAIN workers : WorkerPostsMalformed(w)
    \/ \E w \in DOMAIN workers : OnMessage(w)
    \/ \E w \in DOMAIN workers : OnError(w)
    \/ Finalize
    \/ ChartMessage
    \/ ChartWorkerError

Spec == Init /\ [][Next]_vars

\* the event loop runs every handler whose event is pending, and every
\* worker that has a batch eventually answers or raises an error
LiveSpec == Init /\ [][Next]_vars /\ WF_vars(Next)

\* ==================================================================
\* The trajectory generator: runChunk (simulationWorker.ts, lines 38-82)
\* ==================================================================

\* Money is an integer count of 1/Scale dollars.  A risk is a capital times
\* riskPercentage/100, and at most one more binary digit is needed per
\* trade, so Scale keeps every amount of a run of MaxTrades trades exact
\* for the percentages of Percentages.
Scale == 2 ^ (MaxTrades + 1)
Dollars(n) == n * Scale

RECURSIVE GCD(_, _)
GCD(a, b) == IF b = 0 THEN a ELSE GCD(b, a % b)

\* params.compoundingFrequency; "undefined": the optional field is absent
Frequencies == {"daily", "monthly", "quarterly", "yearly", "undefined"}
CapitalChoices == {0, Dollars(8)}
Percentages == {0, 50}
RatioChoices == {1, 3}
WinRates == {0, 50, 100}
RiskCapChoices == {0, Dollars(3), Dollars(40)}

\* a request with the default capital, risk and ratio of the form
\* (monte_carlo_trading.tsx, useState), one trade a month for three months,
\* and the win rate w
ExampleParams(w) ==
    [initialCapital |-> Dollars(50000), riskPercentage |-> 1, riskRewardRatio |-> 3,
     winRate |-> w, tradesPerMonth |-> 1, timeMonths |-> 3,
     riskCapDollars |-> Dollars(3000), compoundingFrequency |-> "quarterly"]

\* the Params of a worker request
StrategyParams ==
    {p \in [initialCapital : CapitalChoices, riskPercentage : Percentages,
            riskRewardRatio : RatioChoices, winRate : WinRates,
            tradesPerMonth : 0..MaxTradesPerMonth, timeMonths : 0..MaxMonths,
            riskCapDollars : RiskCapChoices, compoundingFrequency : Frequencies] :
        p.tradesPerMonth * p.timeMonths <= MaxTrades}
    \cup {ExampleParams(w) : w \in WinRates}

\* Math.random(), in hundredths: a value of [0, 1)
RandomDraws == {0, 50, 99}

\* amount * (riskPercentage / 100)
TimesPercent(amount, percentage) ==
    LET g == GCD(percentage, 100)
    IN  IF g = 0 THEN 0 ELSE (amount * (percentage \div g)) \div (100 \div g)

\* Math.min(capital * riskPercentDecimal, params.riskCapDollars)
RiskPerTrade(c, p) == Min2(TimesPercent(c, p.riskPercentage), p.riskCapDollars)

\* mutant of RewardPerTrade: the ratio is left out
RewardPerTrade_NoRatio(risk, p) == risk

\* currentRiskPerTrade * params.riskRewardRatio
RewardPerTrade(risk, p) == risk * p.riskRewardRatio

\* mutant of RecalcMonths: an absent frequency is taken as yearly
RecalcMonths_DefaultYearly(p) ==
    LET freq == p.compoundingFrequency
    IN  IF freq = "daily" THEN 0
        ELSE IF freq = "monthly" THEN 1
        ELSE IF freq = "quarterly" THEN 3
        ELSE 12

\* const freq = params.compoundingFrequency ?? 'quarterly'; recalcMonths
RecalcMonths(p) ==
    LET freq == IF p.compoundingFrequency = "undefined" THEN "quarterly"
                ELSE p.compoundingFrequency
    IN  IF freq = "daily" THEN 0
        ELSE IF freq = "monthly" THEN 1
        ELSE IF freq = "quarterly" THEN 3
        ELSE 12

\* mutant of IsWin: the threshold is one hundredth too low
IsWin_OffByOne(draw, p) == draw < p.winRate - 1

\* mutant of IsWin: `<=` for `<`
IsWin_OrEqual(draw, p) == draw <= p.winRate

\* Math.random() < winRateDecimal
IsWin(draw, p) == draw < p.winRate

\* mutant of AfterTrade: the clamp at zero is missing
AfterTrade_NoClamp(c, isWin, risk, reward) ==
    IF isWin THEN c + reward ELSE c - risk

\* capital += reward or capital -= risk; if (capital < 0) capital = 0
AfterTrade(c, isWin, risk, reward) ==
    LET moved == IF isWin THEN c + reward ELSE c - risk
    IN  IF moved < 0 THEN 0 ELSE moved

\* mutant of BeginSim: the month-0 point is not recorded
BeginSim_NoInitialPoint(p) ==
    /\ capital' = p.initialCapital
    /\ monthlyData' = <<>>
    /\ currentRiskPerTrade' = RiskPerTrade(p.initialCapital, p)
    /\ currentRewardPerTrade' = RewardPerTrade(RiskPerTrade(p.initialCapital, p), p)
    /\ month' = 1
    /\ trade' = 0
    /\ lastTrade' = "none"
    /\ gpc' = "loop"

\* the head of the body of the simulation loop (lines 43-53)
BeginSim(p) ==
    /\ capital' = p.initialCapital
    /\ monthlyData' = <<[month |-> 0, capital |-> p.initialCapital]>>
    /\ currentRiskPerTrade' = RiskPerTrade(p.initialCapital, p)
    /\ currentRewardPerTrade' = RewardPerTrade(RiskPerTrade(p.initialCapital, p), p)
    /\ month' = 1
    /\ trade' = 0
    /\ lastTrade' = "none"
    /\ gpc' = "loop"

\* runChunk is called with the params of the request; its first simulation begins
RunChunk(p) ==
    /\ gpc = "idle"
    /\ gp' = p
    /\ BeginSim(p)
    /\ UNCHANGED <<poolVars, chartVars, calcVars>>

\* one iteration of the trade loop (lines 54-68)
Trade(draw) ==
    /\ gpc = "loop"
    /\ month <= gp.timeMonths
    /\ trade < gp.tradesPerMonth
    /\ LET isWin == IsWin(draw, gp)
           c == AfterTrade(capital, isWin, currentRiskPerTrade, currentRewardPerTrade)
       IN  /\ capital' = c
           /\ lastTrade' = IF isWin THEN "win" ELSE "loss"
           /\ IF RecalcMonths(gp) = 0
              THEN /\ currentRiskPerTrade' = RiskPerTrade(c, gp)
                   /\ currentRewardPerTrade' = RewardPerTrade(RiskPerTrade(c, gp), gp)
              ELSE UNCHANGED <<currentRiskPerTrade, currentRewardPerTrade>>
    /\ trade' = trade + 1
    /\ UNCHANGED <<gp, gpc, month, monthlyData>>
    /\ UNCHANGED <<poolVars, chartVars, calcVars>>

\* the end of one iteration of the month loop (lines 70-77)
EndMonth ==
    /\ gpc = "loop"
    /\ month <= gp.timeMonths
    /\ trade >= gp.tradesPerMonth
    /\ IF RecalcMonths(gp) > 0 /\ month % RecalcMonths(gp) = 0
       THEN /\ currentRiskPerTrade' = RiskPerTrade(capital, gp)
            /\ currentRewardPerTrade' = RewardPerTrade(RiskPerTrade(capital, gp), gp)
       ELSE UNCHANGED <<currentRiskPerTrade, currentRewardPerTrade>>
    /\ monthlyData' = Append(monthlyData, [month |-> month, capital |-> capital])
    /\ month' = month + 1
    /\ trade' = 0
    /\ UNCHANGED <<gp, gpc, capital, lastTrade>>
    /\ UNCHANGED <<poolVars, chartVars, calcVars>>

\* simResults.push({ finalCapital: capital, monthlyData }) (line 79)
PushResult ==
    /\ gpc = "loop"
    /\ month > gp.timeMonths
    /\ gpc' = "pushed"
    /\ UNCHANGED <<gp, capital, currentRiskPerTrade, currentRewardPerTrade,
                   month, trade, monthlyData, lastTrade>>
    /\ UNCHANGED <<poolVars, chartVars, calcVars>>

\* the simulation loop goes on (sim < simulations): the next simulation begins
NextSim ==
    /\ gpc = "pushed"
    /\ BeginSim(gp)
    /\ UNCHANGED gp
    /\ UNCHANGED <<poolVars, chartVars, calcVars>>

\* the simulation loop ends and runChunk returns
Return ==
    /\ gpc = "pushed"
    /\ gpc' = "done"
    /\ UNCHANGED <<gp, capital, currentRiskPerTrade, currentRewardPerTrade,
                   month, trade, monthlyData, lastTrade>>
    /\ UNCHANGED <<poolVars, chartVars, calcVars>>

\* runChunk's simulation with the outcome of every trade fixed to `win`:
\* the trade loop and the month loop from month m, trade t on
RECURSIVE ForcedFrom(_, _, _, _, _, _, _)
ForcedFrom(p, win, m, t, c, risk, path) ==
    IF m > p.timeMonths THEN path
    ELSE IF t < p.tradesPerMonth
    THEN LET c2 == AfterTrade(c, win, risk, RewardPerTrade(risk, p))
             r2 == IF RecalcMonths(p) = 0 THEN RiskPerTrade(c2, p) ELSE risk
         IN  ForcedFrom(p, win, m, t + 1, c2, r2, path)
    ELSE LET r2 == IF RecalcMonths(p) > 0 /\ m % RecalcMonths(p) = 0
                   THEN RiskPerTrade(c, p) ELSE risk
         IN  ForcedFrom(p, win, m + 1, 0, c, r2,
                        Append(path, [month |-> m, capital |-> c]))

ForcedPath(p, win) ==
    ForcedFrom(p, win, 1, 0, p.initialCapital, RiskPerTrade(p.initialCapital, p),
               <<[month |-> 0, capital |-> p.initialCapital]>>)

\* the worker thread alone; the main thread has not started a run
GenInit ==
    /\ simulations = 0
    /\ hardwareConcurrency = 0
    /\ phase = "idle"
    /\ results = NoResults
    /\ isRunning = FALSE
    /\ errorMsg = "null"
    /\ progress = [done |-> 0, total |-> 0]
    /\ stats = InitialStats
    /\ nextStart = 0
    /\ completedBatches = 0
    /\ workers = <<>>
    /\ summary = NoResults
    /\ claimed = <<>>
    /\ produced = EmptyBag
    /\ errorsSurfaced = 0
    /\ failed = FALSE
    /\ GenIdle
    /\ ChartIdle
    /\ CalcIdle

GenNext ==
    \/ gpc = "idle" /\ \E p \in StrategyParams : RunChunk(p)
    \/ \E draw \in RandomDraws : Trade(draw)
    \/ EndMonth
    \/ PushResult
    \/ NextSim
    \/ Return

GenSpec == GenInit /\ [][GenNext]_vars

\* ==================================================================
\* The main thread's view of the generator (monte_carlo_trading.tsx)
\* ==================================================================

\* mutant of WorkerParamsOf: the request carries compoundingFrequency
WorkerParamsOf_Forwarding(sp) == sp

\* the WorkerParams runSimulation builds from its params, field by field:
\* the seven numeric fields; compoundingFrequency is not among them
WorkerParamsOf(sp) ==
    [initialCapital |-> sp.initialCapital, riskPercentage |-> sp.riskPercentage,
     riskRewardRatio |-> sp.riskRewardRatio, winRate |-> sp.winRate,
     tradesPerMonth |-> sp.tradesPerMonth, timeMonths |-> sp.timeMonths,
     riskCapDollars |-> sp.riskCapDollars, compoundingFrequency |-> "undefined"]

\* for (trade ...) bestCapital += bestReward
RECURSIVE WinTrades(_, _, _)
WinTrades(c, reward, n) ==
    IF n = 0 THEN c ELSE WinTrades(c + reward, reward, n - 1)

\* for (trade ...) { worstCapitalCalc -= worstRisk; if (< 0) worstCapitalCalc = 0 }
RECURSIVE LossTrades(_, _, _)
LossTrades(c, risk, n) ==
    IF n = 0 THEN c
    ELSE LossTrades(IF c - risk < 0 THEN 0 ELSE c - risk, risk, n - 1)

\* the all-wins month loop from month m on
RECURSIVE BestFrom(_, _, _, _)
BestFrom(p, m, bestCapital, bestRisk) ==
    IF m > p.timeMonths THEN bestCapital
    ELSE LET c == WinTrades(bestCapital, bestRisk * p.riskRewardRatio, p.tradesPerMonth)
         IN  BestFrom(p, m + 1, c,
                      IF m % 3 = 0
                      THEN Min2(TimesPercent(c, p.riskPercentage), p.riskCapDollars)
                      ELSE bestRisk)

\* the all-losses month loop from month m on
RECURSIVE WorstFrom(_, _, _, _)
WorstFrom(p, m, worstCapitalCalc, worstRisk) ==
    IF m > p.timeMonths THEN worstCapitalCalc
    ELSE LET c == LossTrades(worstCapitalCalc, worstRisk, p.tradesPerMonth)
         IN  WorstFrom(p, m + 1, c,
                       IF m % 3 = 0 /\ c > 0
                       THEN Min2(TimesPercent(c, p.riskPercentage), p.riskCapDollars)
                       ELSE worstRisk)

\* summary.allWinsCapital
AllWinsCapital(p) ==
    BestFrom(p, 1, p.initialCapital,
             Min2(TimesPercent(p.initialCapital, p.riskPercentage), p.riskCapDollars))

\* summary.allLossesCapital
AllLossesCapital(p) ==
    WorstFrom(p, 1, p.initialCapital,
              Min2(TimesPercent(p.initialCapital, p.riskPercentage), p.riskCapDollars))

\* ==================================================================
\* The chart-path job: fetchChartPaths (monte_carlo_trading.tsx, lines
\* 267-299) and the worker's 'paths' branch (simulationWorker.ts, 94-108)
\* ==================================================================

\* the capitals a path of the chart sample can take after month 0
PathCapitals == {0, 1, 2}

\* the params a run was started with: ComponentParams, that is Params with
\* the number of simulations
ChartParamChoices ==
    {[initialCapital |-> 1, riskPercentage |-> 50, riskRewardRatio |-> 1,
      winRate |-> 50, tradesPerMonth |-> 1, timeMonths |-> t,
      riskCapDollars |-> 1, compoundingFrequency |-> f, simulations |-> n] :
        t \in 0..MaxChartMonths, f \in Frequencies, n \in 0..MaxSims}

\* sorted[i] for an index outside the array
Undefined == [undefined |-> TRUE]

\* the SimulationResults runChunk can return for params p: a path of
\* timeMonths + 1 points, months 0..timeMonths, starting at initialCapital,
\* whose finalCapital is the capital of its last point
PathsOf(p) ==
    {[finalCapital |-> caps[p.timeMonths + 1],
      monthlyData |-> [m \in 1..(p.timeMonths + 1) |->
                          [month |-> m - 1, capital |-> caps[m]]]] :
        caps \in {c \in [1..(p.timeMonths + 1) -> PathCapitals \cup {p.initialCapital}] :
                     c[1] = p.initialCapital}}

\* the comparator (a, b) => a.finalCapital - b.finalCapital
CompareFinal(a, b) == a.finalCapital - b.finalCapital

\* mutant of Insert: the comparator's sign is read the wrong way round
Insert_Descending(x, s) ==
    LET before == {i \in DOMAIN s : CompareFinal(s[i], x) >= 0}
        k == Cardinality(before)
    IN  SubSeq(s, 1, k) \o <<x>> \o SubSeq(s, k + 1, Len(s))

\* x put into the sorted sequence s after every element that does not
\* compare greater (Array.prototype.sort is stable)
Insert(x, s) ==
    LET before == {i \in DOMAIN s : CompareFinal(s[i], x) <= 0}
        k == Cardinality(before)
    IN  SubSeq(s, 1, k) \o <<x>> \o SubSeq(s, k + 1, Len(s))

\* simResults.slice().sort(comparator)
RECURSIVE SortByFinalCapital(_)
SortByFinalCapital(s) ==
    IF s = <<>> THEN <<>>
    ELSE Insert(s[Len(s)], SortByFinalCapital(SubSeq(s, 1, Len(s) - 1)))

\* mutant of Picks: the last pick is sorted.length
Picks_PastEnd(n) ==
    <<0, (n * 25) \div 100, (n * 50) \div 100, (n * 75) \div 100, n>>

\* const picks (0-based indices)
Picks(n) ==
    <<0, (n * 25) \div 100, (n * 50) \div 100, (n * 75) \div 100, n - 1>>

\* sorted[i] (0-based)
ElementAt(s, i) == IF i + 1 \in DOMAIN s THEN s[i + 1] ELSE Undefined

\* const labels
labels == <<"Worst Sim", "25th %ile", "Median", "75th %ile", "Best Sim">>

\* mutant of CapitalAt: the point of the month before
CapitalAt_PreviousMonth(path, m) ==
    IF m \in DOMAIN path.monthlyData THEN path.monthlyData[m].capital ELSE 0

\* p.monthlyData[month]?.capital ?? 0
CapitalAt(path, m) ==
    IF m + 1 \in DOMAIN path.monthlyData THEN path.monthlyData[m + 1].capital ELSE 0

\* the chart point of month m: { month } and one entry per path under its label
ChartPoint(paths, m) ==
    [k \in {"month"} \cup {labels[i] : i \in DOMAIN paths} |->
        IF k = "month" THEN m
        ELSE CapitalAt(paths[CHOOSE i \in DOMAIN paths : labels[i] = k], m)]

\* handleInputChange: the user edits the number of simulations in the form
HandleInputChange(n) ==
    /\ formParams # NoParams
    /\ formParams.simulations # n
    /\ formParams' = [formParams EXCEPT !.simulations = n]
    /\ UNCHANGED <<runParams, chartPc, chartReq, simResults, sortedResults,
                   pathsMsg, chartData>>
    /\ UNCHANGED <<poolVars, genVars, calcVars>>

\* fetchChartPaths up to postMessage (lines 267-280, 296-297)
FetchChartPaths ==
    /\ chartPc = "idle"
    /\ chartReq' = [kind |-> "paths", params |-> WorkerParamsOf(runParams),
                    simulations |-> Min2(chartSimsCap, runParams.simulations)]
    /\ chartPc' = "posted"
    /\ UNCHANGED <<formParams, runParams, simResults, sortedResults, pathsMsg, chartData>>
    /\ UNCHANGED <<poolVars, genVars, calcVars>>

\* the worker's 'paths' branch (simulationWorker.ts, lines 94-108)
PathsWorker ==
    /\ chartPc = "posted"
    /\ \E rs \in [1..chartReq.simulations -> PathsOf(chartReq.params)] :
          /\ simResults' = rs
          /\ sortedResults' = SortByFinalCapital(rs)
          /\ pathsMsg' = [i \in 1..5 |->
                             ElementAt(SortByFinalCapital(rs), Picks(Len(rs))[i])]
    /\ chartPc' = "answered"
    /\ UNCHANGED <<formParams, runParams, chartReq, chartData>>
    /\ UNCHANGED <<poolVars, genVars, calcVars>>

\* the chart worker raises an error instead of answering: no handler is
\* set for it and the promise never settles
PathsWorkerError ==
    /\ chartPc = "posted"
    /\ chartPc' = "lost"
    /\ UNCHANGED <<formParams, runParams, chartReq, simResults, sortedResults,
                   pathsMsg, chartData>>
    /\ UNCHANGED <<poolVars, genVars, calcVars>>

\* w.onmessage of fetchChartPaths (lines 281-295): with an undefined path
\* p.monthlyData throws and resolve is never reached
PathsOnMessage ==
    /\ chartPc = "answered"
    /\ IF \E i \in DOMAIN pathsMsg : pathsMsg[i] = Undefined
       THEN /\ chartPc' = "thrown"
            /\ UNCHANGED chartData
       ELSE /\ chartData' = [m \in 1..(runParams.timeMonths + 1) |->
                                ChartPoint(pathsMsg, m - 1)]
            /\ chartPc' = "resolved"
    /\ UNCHANGED <<formParams, runParams, chartReq, simResults, sortedResults, pathsMsg>>
    /\ UNCHANGED <<poolVars, genVars, calcVars>>

\* the main thread is about to call fetchChartPaths(params)
ChartInit ==
    /\ simulations = 0
    /\ hardwareConcurrency = 0
    /\ phase = "idle"
    /\ results = NoResults
    /\ isRunning = FALSE
    /\ errorMsg = "null"
    /\ progress = [done |-> 0, total |-> 0]
    /\ stats = InitialStats
    /\ nextStart = 0
    /\ completedBatches = 0
    /\ workers = <<>>
    /\ summary = NoResults
    /\ claimed = <<>>
    /\ produced = EmptyBag
    /\ errorsSurfaced = 0
    /\ failed = FALSE
    /\ GenIdle
    /\ CalcIdle
    /\ runParams \in ChartParamChoices
    /\ formParams = runParams
    /\ chartPc = "idle"
    /\ chartReq = NoRequest
    /\ simResults = <<>>
    /\ sortedResults = <<>>
    /\ pathsMsg = <<>>
    /\ chartData = <<>>

ChartNext ==
    \/ \E n \in {0, MaxSims} : HandleInputChange(n)
    \/ FetchChartPaths
    \/ PathsWorker
    \/ PathsWorkerError
    \/ PathsOnMessage

ChartSpec == ChartInit /\ [][ChartNext]_vars

\* ------------------------------------------------ rrr_calculator.tsx
\* Amounts of the calculator are integers in fine units: one tick is the
\* last decimal an argument carries (10^-MaxDigits), and a tick is Fine
\* fine units so that the division by 100 of riskPercent and the half of the
\* RRR 1.5 stay exact. Floating-point error of the products is outside the
\* model; the rounding of toFixed is inside it.

Fine == 2 * 100
Ticks(n) == n * Fine

\* 10^-fixedDigits, the step toFixed rounds to, in fine units
Quantum == Fine * (10 ^ (MaxDigits - fixedDigits))

Abs(x) == IF x < 0 THEN 0 - x ELSE x

\* Number(x.toFixed(8)): x to the nearest multiple of the step, a tie going
\* to the larger magnitude, the sign kept
ToFixed(x) ==
    IF x < 0 THEN 0 - (((2 * (0 - x) + Quantum) \div (2 * Quantum)) * Quantum)
    ELSE ((2 * x + Quantum) \div (2 * Quantum)) * Quantum

\* mutant of PositionSize: the quotient rounded up
PositionSize_Ceil(riskAmount, riskPerShare) ==
    IF riskPerShare > 0 THEN (riskAmount + riskPerShare - 1) \div riskPerShare ELSE 0

\* riskPerShare > 0 ? Math.floor(riskAmount / riskPerShare) : 0
PositionSize(riskAmount, riskPerShare) ==
    IF riskPerShare > 0 THEN riskAmount \div riskPerShare ELSE 0

\* const rrrs = [1, 1.5, 2, 3, 4, 5, 6, 7, 8, 9, 10], in halves
rrrs == <<2, 3, 4, 6, 8, 10, 12, 14, 16, 18, 20>>

\* the arguments the model calls computeTargets with: balances and prices
\* on and off the rounding step, whole percentages, long and short
CalcArgChoices ==
    [accountBalance : {Ticks(n) : n \in {0, 4, 5, 96, 100, 1000}},
     riskPercent : {0, 1, 50, 100},
     entryPrice : {Ticks(n) : n \in {0, 10, 14, 15, 100}},
     stopLossPrice : {Ticks(n) : n \in {0, 10, 14, 16, 100}},
     isLong : BOOLEAN]

computeTargets(args) ==
    LET riskAmount == (args.accountBalance * args.riskPercent) \div 100
        riskPerShare == Abs(args.entryPrice - args.stopLossPrice)
        positionSize == PositionSize(riskAmount, riskPerShare)
        totalCost == ToFixed(positionSize * args.entryPrice)
        targets ==
            [i \in 1..Len(rrrs) |->
                LET profitPerShare == (rrrs[i] * riskPerShare) \div 2
                    targetPrice == IF args.isLong THEN args.entryPrice + profitPerShare
                                   ELSE args.entryPrice - profitPerShare
                IN  [rrr |-> rrrs[i], targetPrice |-> ToFixed(targetPrice),
                     profitPerShare |-> ToFixed(profitPerShare)]]
    IN  [kind |-> "result", riskAmount |-> ToFixed(riskAmount),
         riskPerShare |-> ToFixed(riskPerShare), positionSize |-> positionSize,
         totalCost |-> totalCost, targets |-> targets]

\* the component renders: computeTargets is applied to its inputs
Render ==
    /\ calcResult.kind = "none"
    /\ calcResult' = computeTargets(calcArgs)
    /\ UNCHANGED <<calcArgs, poolVars, genVars, chartVars>>

CalcInit ==
    /\ simulations = 0
    /\ hardwareConcurrency = 0
    /\ phase = "idle"
    /\ results = NoResults
    /\ isRunning = FALSE
    /\ errorMsg = "null"
    /\ progress = [done |-> 0, total |-> 0]
    /\ stats = InitialStats
    /\ nextStart = 0
    /\ completedBatches = 0
    /\ workers = <<>>
    /\ summary = NoResults
    /\ claimed = <<>>
    /\ produced = EmptyBag
    /\ errorsSurfaced = 0
    /\ failed = FALSE
    /\ GenIdle
    /\ ChartIdle
    /\ calcArgs \in CalcArgChoices
    /\ calcResult = [kind |-> "none"]

CalcNext == Render

CalcSpec == CalcInit /\ [][CalcNext]_vars

\* the shape of every SimulationResult of runChunk, which PathsOf relies on
PathShape ==
    (gpc \in {"pushed", "done"}) =>
        /\ Len(monthlyData) = gp.timeMonths + 1
        /\ \A i \in DOMAIN monthlyData : monthlyData[i].month = i - 1
        /\ monthlyData[1].capital = gp.initialCapital
        /\ monthlyData[Len(monthlyData)].capital = capital

\* amounts stay exact: every product by riskPercentage divides by 100
GenExact ==
    gpc # "idle" =>
        /\ (capital * gp.riskPercentage) % 100 = 0
        /\ capital <= Dollars(100000)

\* ==================================================================
\* Properties
\* ==================================================================

SummaryComputed == phase \in {"chart", "done", "hung"}

RECURSIVE SumTakes(_)
SumTakes(cl) == IF cl = <<>> THEN 0 ELSE Head(cl)[2] + SumTakes(Tail(cl))

\* the final capitals of responses posted by workers and not yet handled
PendingFinals(w) ==
    IF workers[w].status = "posted" /\ workers[w].msg.kind = "finals"
    THEN workers[w].msg.finals ELSE <<>>

RECURSIVE PendingCount(_)
PendingCount(W) ==
    IF W = {} THEN 0
    ELSE LET w == CHOOSE x \in W : TRUE
         IN  Len(PendingFinals(w)) + PendingCount(W \ {w})

RECURSIVE PendingSum(_)
PendingSum(W) ==
    IF W = {} THEN 0
    ELSE LET w == CHOOSE x \in W : TRUE
         IN  SumSeq(PendingFinals(w)) + PendingSum(W \ {w})

\* C1 - Batch partition completeness: the ranges handed out by getNextBatch
\* are non-empty, of at most batchSize simulations, contiguous from 0 (each
\* starts where the previous one ends, so no gap and no overlap), their sizes
\* sum to the cursor, and once no batch remains (and in every run that
\* reaches the summary without a failure) they sum to exactly totalSims.
C1_BatchPartition ==
    /\ \A i \in DOMAIN claimed :
          /\ claimed[i][2] >= 1
          /\ claimed[i][2] <= batchSize
          /\ claimed[i][1] = (IF i = 1 THEN 0 ELSE claimed[i - 1][1] + claimed[i - 1][2])
          /\ claimed[i][1] + claimed[i][2] <= simulations
    /\ SumTakes(claimed) = nextStart
    /\ nextStart >= simulations => SumTakes(claimed) = simulations
    /\ (SummaryComputed /\ ~failed) => SumTakes(claimed) = simulations

\* a finished failure-free run of three batches (2, 2, 1) on two workers
C1_Witness ==
    /\ phase = "done" /\ ~failed
    /\ Len(workers) = 2
    /\ Len(claimed) = 3
    /\ claimed[3] = <<4, 1>>

\* C2 - Exactly-once aggregation: every final capital a worker returned is
\* either still in an unhandled response or has been applied exactly once
\* (count and sum agree with the bag of returned values), and in a run
\* without failure seen = totalSims when the summary is computed.
C2_ExactlyOnce ==
    /\ stats.seen + PendingCount(DOMAIN workers) = BagCardinality(produced)
    /\ stats.sum + PendingSum(DOMAIN workers) = SumBag(produced)
    /\ (SummaryComputed /\ ~failed) => stats.seen = simulations

\* the summary of a failure-free run of 5 simulations on two workers
C2_Witness ==
    /\ phase = "chart" /\ ~failed
    /\ Len(workers) = 2
    /\ simulations = 5
    /\ stats.seen = 5

AllTerminated == \A w \in DOMAIN workers : workers[w].terminated

\* C3 - Abort on worker failure (the claim as stated): once a pool worker has
\* failed, every worker of the pool is terminated, so none claims another
\* batch and nothing more is aggregated.
C3_AbortOnFailure ==
    /\ [](failed => AllTerminated)
    /\ [][failed => (nextStart' = nextStart /\ stats'.seen = stats.seen)]_vars

\* C4 - No partial results on failure (the claim as stated): in a run in
\* which a pool worker failed, an error message is shown and no summary
\* statistics are ever published: results stays null.
C4_NoPartialResults ==
    failed => (errorMsg # "null" /\ results = NoResults)

\* C5 - Aggregate-before-claim ordering: a step in which a worker is sent a
\* further batch is the step that applied every final capital of the batch
\* that worker had just posted; and every step that changes the running
\* statistics applies the whole batch of exactly one worker, all other
\* workers being left alone.
C5_AggregateBeforeClaim ==
    [][ /\ \A w \in DOMAIN workers :
             (w \in DOMAIN workers' /\ workers'[w].batches > workers[w].batches) =>
                 /\ workers[w].status = "posted"
                 /\ stats'.seen = stats.seen + Len(workers[w].msg.finals)
                 /\ stats'.sum = stats.sum + SumSeq(workers[w].msg.finals)
                 /\ workers'[w].aggregated = workers[w].aggregated + 1
                 /\ workers'[w].aggregated = workers[w].batches
                 /\ completedBatches' = completedBatches + 1
        /\ (stats'.seen # stats.seen) =>
             \E w \in DOMAIN workers :
                 /\ workers[w].status = "posted"
                 /\ stats'.seen = stats.seen + Len(workers[w].msg.finals)
                 /\ workers'[w].aggregated = workers[w].aggregated + 1
                 /\ \A o \in DOMAIN workers \ {w} : workers'[o] = workers[o]
      ]_vars

\* a worker has been sent its second batch, after its first was aggregated,
\* while the response of another worker is waiting
C5_Witness ==
    \E w, o \in DOMAIN workers :
        /\ w # o
        /\ workers[w].batches = 2 /\ workers[w].aggregated = 1
        /\ workers[w].status = "busy"
        /\ workers[o].status = "posted"
        /\ stats.seen = batchSize

\* C6 - Join before finalization: when the summary has been computed every
\* spawned worker is terminated and none has a batch in flight; and a
\* terminated worker is never sent another batch.
C6_JoinBeforeFinalize ==
    /\ [](SummaryComputed =>
            \A w \in DOMAIN workers :
                workers[w].terminated /\ workers[w].status = "dead")
    /\ [][\A w \in DOMAIN workers :
            workers[w].terminated =>
                /\ workers'[w].batches = workers[w].batches
                /\ workers'[w].status = "dead"]_vars

\* the summary of a run on two workers, one of which processed two batches
C6_Witness ==
    /\ phase = "chart"
    /\ Len(workers) = 2
    /\ AllTerminated
    /\ \E w \in DOMAIN workers : workers[w].batches = 2

BagMin(b) == CHOOSE v \in DOMAIN b : \A u \in DOMAIN b : v <= u
BagMax(b) == CHOOSE v \in DOMAIN b : \A u \in DOMAIN b : v >= u

C8_ReservoirBound ==
    Len(stats.reservoir) <= Min2(reservoirCap, simulations)

\* more values were observed than the reservoir holds, and the reservoir is full
C8_Witness ==
    /\ phase = "pool"
    /\ Len(stats.reservoir) = reservoirCap
    /\ stats.seen > reservoirCap
    /\ simulations > reservoirCap

\* C9 - Aggregator ordering law: whenever the reservoir is non-empty at
\* finalization, worst <= p10 <= p25 <= median <= p75 <= p90 <= best.
C9_OrderingLaw ==
    (SummaryComputed /\ Len(stats.reservoir) >= 1) =>
        /\ summary.worst <= summary.percentile10
        /\ summary.percentile10 <= summary.percentile25
        /\ summary.percentile25 <= summary.median
        /\ summary.median <= summary.percentile75
        /\ summary.percentile75 <= summary.percentile90
        /\ summary.percentile90 <= summary.best

\* a summary after replacements in the reservoir, with strict steps in the chain:
\* the minimum was replaced out of the reservoir and the percentiles differ
C9_Witness ==
    /\ phase = "chart"
    /\ stats.seen > Len(stats.reservoir)
    /\ summary.worst < summary.percentile10
    /\ summary.percentile10 < summary.percentile90

\* Every outcome of feeding the items 1..n, one at a time, to the aggregator
\* (Observe with the draws Draws allows): the draws made, the resulting
\* state, and the number of equally likely alternatives along the way.
RECURSIVE Outcomes(_)
Outcomes(n) ==
    IF n = 0 THEN {[js |-> <<>>, st |-> InitialStats, ways |-> 1]}
    ELSE UNION {{[js   |-> Append(o.js, j),
                  st   |-> Observe(o.st, n, j),
                  ways |-> o.ways * Cardinality(Draws(o.st))] : j \in Draws(o.st)}
                : o \in Outcomes(n - 1)}

InReservoir(o, i) == \E idx \in DOMAIN o.st.reservoir : o.st.reservoir[idx] = i

\* C10 - Reservoir unbiasedness: when all batches of a failure-free run are
\* aggregated, the outcomes of the random draws are equally likely (each draw
\* is uniform over a range whose size depends only on the position), and
\* every observed position i of the stream of count values is in the final
\* reservoir in the same share capacity/count of them, whichever worker and
\* batch supplied the value at that position.
C10_ReservoirUnbiased ==
    (phase = "chart" /\ ~failed) =>
        LET n   == stats.seen
            all == Outcomes(n)
        IN  /\ \A o \in all : o.ways = Cardinality(all)
            /\ \A o \in all : Len(o.st.reservoir) = sampleSize
            /\ \A i \in 1..n :
                  Cardinality({o \in all : InReservoir(o, i)}) * n
                      = sampleSize * Cardinality(all)

\* all batches of a failure-free run on two workers are aggregated, more
\* values were observed than the reservoir holds, and an observed value (the
\* minimum) is no longer in the reservoir
C10_Witness ==
    /\ phase = "chart" /\ ~failed
    /\ Len(workers) = 2
    /\ stats.seen = MaxSims
    /\ Len(stats.reservoir) = reservoirCap
    /\ \A idx \in DOMAIN stats.reservoir : stats.reservoir[idx] # stats.minVal

\* the element of the ascending reservoir at 0-based index floor(length * pct/100)
AtFloorIndex(sorted, pct) == sorted[((Len(sorted) * pct) \div 100) + 1]

\* C11 - Finalization formula: the reported mean is sum/count (0 when count
\* is 0); the reservoir is sorted ascending; each reported percentile p of
\* 10, 25, 50, 75, 90 percent is the element at index floor(length * p) of
\* it, and that index is within bounds whenever the reservoir is non-empty.
C11_FinalizationFormula ==
    SummaryComputed =>
        LET sorted == stats.reservoir
        IN  /\ \A i \in DOMAIN sorted : i > 1 => sorted[i - 1] <= sorted[i]
            /\ IF stats.seen = 0
               THEN summary.mean.num = 0
               ELSE summary.mean.num * stats.seen = stats.sum * summary.mean.den
            /\ summary.mean.den >= 1
            /\ Len(sorted) >= 1 =>
                  /\ \A pct \in {10, 25, 50, 75, 90} :
                        (Len(sorted) * pct) \div 100 \in 0..(Len(sorted) - 1)
                  /\ summary.percentile10 = AtFloorIndex(sorted, 10)
                  /\ summary.percentile25 = AtFloorIndex(sorted, 25)
                  /\ summary.median       = AtFloorIndex(sorted, 50)
                  /\ summary.percentile75 = AtFloorIndex(sorted, 75)
                  /\ summary.percentile90 = AtFloorIndex(sorted, 90)

\* a summary over a full reservoir whose two elements differ, after more
\* observations than the reservoir holds, with a mean that is not an integer
C11_Witness ==
    /\ phase = "chart"
    /\ Len(stats.reservoir) = reservoirCap
    /\ stats.seen > reservoirCap
    /\ summary.percentile25 < summary.percentile75
    /\ summary.mean.num % summary.mean.den # 0

InFlight == {w \in DOMAIN workers : workers[w].status \in {"busy", "posted"}}

RECURSIVE SimsOf(_)
SimsOf(W) ==
    IF W = {} THEN 0
    ELSE LET w == CHOOSE x \in W : TRUE
         IN  workers[w].sims + SimsOf(W \ {w})

\* C12 - Bounded pool: the concurrency limit is the hardware parallelism
\* (4 when unknown) clamped to 1..8; exactly min(limit, ceil(totalSims /
\* batchSize)) workers are spawned; a worker has at most one batch in flight
\* (every batch sent to it but possibly the last has been aggregated); the
\* batches in flight number at most poolSize <= 8 and the simulations in
\* flight at most poolSize * batchSize, and in a run without failure they are
\* exactly the claimed simulations not yet aggregated.
C12_BoundedPool ==
    LET limit == Min2(Max2(1, IF hardwareConcurrency = 0 THEN 4 ELSE hardwareConcurrency), 8)
        pool  == Min2(limit, CeilDiv(simulations, batchSize))
    IN  /\ limit \in 1..8
        /\ maxWorkers = limit
        /\ phase # "idle" =>
              /\ Len(workers) = pool
              /\ Len(workers) <= 8
              /\ Cardinality(InFlight) <= pool
              /\ SimsOf(InFlight) <= pool * batchSize
              /\ \A w \in DOMAIN workers :
                    /\ workers[w].sims <= batchSize
                    /\ workers[w].batches - workers[w].aggregated \in {0, 1}
                    /\ w \in InFlight => workers[w].batches = workers[w].aggregated + 1
              /\ ~failed => SimsOf(InFlight) = nextStart - stats.seen

\* a pool limited by the hardware (one worker for three batches) with its
\* second batch in flight
C12_Witness ==
    /\ phase = "pool"
    /\ hardwareConcurrency = 1
    /\ simulations = MaxSims
    /\ Len(workers) = 1
    /\ workers[1].batches = 2
    /\ workers[1].status = "busy"

\* C13 - Progress counter: within a run the completed-batches counter
\* starts at 0, grows by exactly one in each step that aggregates a batch and
\* changes in no other step (so it never decreases); its total is
\* ceil(totalSims / batchSize); done <= total always; and in a run without
\* failure done = total when the summary is computed.
C13_ProgressCounter ==
    /\ [](/\ progress.done <= progress.total
          /\ progress.done = completedBatches
          /\ phase = "idle" => progress.done = 0
          /\ phase # "idle" => progress.total = CeilDiv(simulations, batchSize)
          /\ (SummaryComputed /\ ~failed) => progress.done = progress.total)
    /\ [][/\ phase = "idle" => progress'.done = 0
          /\ phase # "idle" =>
                /\ progress'.total = progress.total
                /\ progress'.done =
                      IF \E w \in DOMAIN workers :
                            workers'[w].aggregated = workers[w].aggregated + 1
                      THEN progress.done + 1
                      ELSE progress.done]_vars

\* a failure-free run of the largest number of batches has reached its summary
C13_Witness ==
    /\ phase = "chart" /\ ~failed
    /\ progress.total = CeilDiv(MaxSims, batchSize)
    /\ progress.total >= 2
    /\ progress.done = progress.total

\* ------------------------------------------------ generator properties

\* a step of the trade loop
TradeStep == gpc = "loop" /\ gpc' = "loop" /\ trade' = trade + 1

\* a simulation of the chunk is complete
SimComplete == gpc \in {"pushed", "done"}

\* C14 - Generator invariant: for params with initialCapital >= 0 and
\* riskCapDollars >= 0 and every sequence of draws, capital is >= 0 after
\* every trade and at every recorded point of the path, and the risk per
\* trade, at the start and after every recompute, is <= riskCapDollars.
C14_GeneratorInvariant ==
    (gpc # "idle" /\ gp.initialCapital >= 0 /\ gp.riskCapDollars >= 0) =>
        /\ capital >= 0
        /\ \A i \in DOMAIN monthlyData : monthlyData[i].capital >= 0
        /\ currentRiskPerTrade <= gp.riskCapDollars

\* a loss larger than the capital left has been clamped to zero while the
\* risk per trade is at its cap
C14_Witness ==
    /\ gpc = "loop"
    /\ lastTrade = "loss"
    /\ capital = 0
    /\ gp.initialCapital > 0
    /\ gp.riskCapDollars > 0
    /\ currentRiskPerTrade = gp.riskCapDollars
    /\ monthlyData[Len(monthlyData)].capital > 0

\* C15 - All-wins determinism: with winRate = 100 every trade is a win
\* whatever the draw, capital never decreases within a simulation, and the
\* recorded trajectory is the one the params alone determine.
C15_AllWins ==
    /\ []((SimComplete /\ gp.winRate = 100) =>
             /\ monthlyData = ForcedPath(gp, TRUE)
             /\ capital = monthlyData[Len(monthlyData)].capital)
    /\ [][(gpc = "loop" /\ gp.winRate = 100) =>
             /\ capital' >= capital
             /\ TradeStep => /\ lastTrade' = "win"
                             /\ capital' = capital + currentRewardPerTrade]_vars

\* an all-wins chunk has returned a trajectory whose monthly gains grew
C15_Witness ==
    /\ gpc = "done"
    /\ gp.winRate = 100
    /\ Len(monthlyData) >= 4
    /\ monthlyData[2].capital - monthlyData[1].capital > 0
    /\ monthlyData[Len(monthlyData)].capital - monthlyData[Len(monthlyData) - 1].capital
          > monthlyData[2].capital - monthlyData[1].capital

\* C16 - All-losses determinism: with winRate = 0 every trade is a loss
\* whatever the draw, capital never increases within a simulation and is
\* clamped at zero, and the recorded trajectory is the one the params alone
\* determine.
C16_AllLosses ==
    /\ []((SimComplete /\ gp.winRate = 0) =>
             /\ monthlyData = ForcedPath(gp, FALSE)
             /\ capital = monthlyData[Len(monthlyData)].capital)
    /\ [][(gpc = "loop" /\ gp.winRate = 0) =>
             /\ capital' <= capital
             /\ capital' >= 0
             /\ TradeStep =>
                   /\ lastTrade' = "loss"
                   /\ capital' = IF capital - currentRiskPerTrade < 0 THEN 0
                                 ELSE capital - currentRiskPerTrade]_vars

\* an all-losses chunk has returned a trajectory that fell to zero through a
\* positive intermediate point
C16_Witness ==
    /\ gpc = "done"
    /\ gp.winRate = 0
    /\ capital = 0
    /\ Len(monthlyData) >= 3
    /\ monthlyData[2].capital > 0
    /\ monthlyData[2].capital < gp.initialCapital

\* the recompute interval in months the frequency stands for (0: every trade)
IntervalOf(freq) ==
    CASE freq = "daily"     -> 0
      [] freq = "monthly"   -> 1
      [] freq = "quarterly" -> 3
      [] freq = "yearly"    -> 12
      [] freq = "undefined" -> 3

\* C17 - Recompute interval: risk = min(capital * riskPercentage / 100,
\* riskCapDollars) and reward = risk * riskRewardRatio are computed when a
\* simulation begins, after every trade when the frequency is daily, and
\* otherwise only at the end of a month that is a multiple of the interval
\* (monthly 1, quarterly 3, yearly 12, quarterly when the frequency is
\* absent); in every other step of the loops risk and reward are unchanged.
C17_RecomputeInterval ==
    [][gpc' = "loop" =>
          LET interval == IntervalOf(gp'.compoundingFrequency)
              fresh == /\ (capital' * gp'.riskPercentage) % 100 = 0
                       /\ currentRiskPerTrade' =
                             Min2((capital' * gp'.riskPercentage) \div 100, gp'.riskCapDollars)
                       /\ currentRewardPerTrade' = currentRiskPerTrade' * gp'.riskRewardRatio
              same  == /\ currentRiskPerTrade' = currentRiskPerTrade
                       /\ currentRewardPerTrade' = currentRewardPerTrade
          IN  IF gpc # "loop" THEN fresh
              ELSE IF trade' = trade + 1 THEN (IF interval = 0 THEN fresh ELSE same)
              ELSE IF month' = month + 1
                   THEN (IF interval > 0 /\ month % interval = 0 THEN fresh ELSE same)
              ELSE FALSE]_vars

\* a yearly run has gone through month 12 and recomputed a risk that differs
\* from the one it began with
C17_Witness ==
    /\ gpc = "loop"
    /\ gp.compoundingFrequency = "yearly"
    /\ month = 13
    /\ currentRiskPerTrade # RiskPerTrade(gp.initialCapital, gp)
    /\ currentRiskPerTrade > 0

\* C18 - Deterministic extremes use the generator's rule: for every
\* StrategyParams, every compoundingFrequency included, allWinsCapital is the
\* final capital of the generator when every trade wins and allLossesCapital
\* is its final capital when every trade loses.
C18_ExtremesMatchGenerator ==
    SimComplete =>
        /\ gp.winRate = 100 => AllWinsCapital(gp) = capital
        /\ gp.winRate = 0 => AllLossesCapital(gp) = capital

\* C19 - Extremes bound the distribution: in a run (the generator works on
\* the params runSimulation sends it) with initialCapital >= 0 and
\* riskCapDollars >= 0, for every sequence of draws, every final capital v
\* satisfies allLossesCapital <= v <= allWinsCapital.
C19_ExtremesBound ==
    SimComplete =>
        \A f \in Frequencies :
            LET sp == [gp EXCEPT !.compoundingFrequency = f]
            IN  gp = WorkerParamsOf(sp) =>
                    /\ AllLossesCapital(sp) <= capital
                    /\ capital <= AllWinsCapital(sp)

\* a simulation of a run has ended strictly between the two extremes, the
\* lower of which is positive
C19_Witness ==
    /\ gpc = "done"
    /\ gp = WorkerParamsOf(gp)
    /\ gp.winRate = 50
    /\ 0 < AllLossesCapital(gp)
    /\ AllLossesCapital(gp) < capital
    /\ capital < AllWinsCapital(gp)

\* C20 - Degenerate paths: with tradesPerMonth = 0 or timeMonths = 0 the
\* final capital is initialCapital and the path has exactly timeMonths + 1
\* points, for the months 0..timeMonths, every one at initialCapital.
C20_DegeneratePaths ==
    (SimComplete /\ (gp.tradesPerMonth = 0 \/ gp.timeMonths = 0)) =>
        /\ capital = gp.initialCapital
        /\ Len(monthlyData) = gp.timeMonths + 1
        /\ \A i \in DOMAIN monthlyData :
              monthlyData[i] = [month |-> i - 1, capital |-> gp.initialCapital]

\* a chunk without trades over several months has returned
C20_Witness ==
    /\ gpc = "done"
    /\ gp.tradesPerMonth = 0
    /\ gp.timeMonths >= 2
    /\ gp.initialCapital > 0
    /\ gp.riskPercentage > 0
    /\ Len(monthlyData) >= 3

\* the path of a simulation of three months through the capitals a, b, c
\* (in dollars) from 50000
ExamplePath(a, b, c) ==
    <<[month |-> 0, capital |-> Dollars(50000)], [month |-> 1, capital |-> Dollars(a)],
      [month |-> 2, capital |-> Dollars(b)], [month |-> 3, capital |-> Dollars(c)]>>

\* C21 - Deterministic examples: for initialCapital 50000, riskPercentage 1,
\* riskRewardRatio 3, tradesPerMonth 1, timeMonths 3, riskCapDollars 3000,
\* quarterly compounding, the generated path has capital 51500, 53000, 54500
\* at months 1, 2, 3 when winRate = 100 and 49500, 49000, 48500 when
\* winRate = 0, whatever the random draws.
C21_DeterministicExamples ==
    SimComplete =>
        /\ gp = ExampleParams(100) =>
              monthlyData = ExamplePath(51500, 53000, 54500) /\ capital = Dollars(54500)
        /\ gp = ExampleParams(0) =>
              monthlyData = ExamplePath(49500, 49000, 48500) /\ capital = Dollars(48500)

\* the all-losses example has returned after its third loss, its risk
\* recomputed at the end of month 3
C21_Witness ==
    /\ gpc = "done"
    /\ gp = ExampleParams(0)
    /\ lastTrade = "loss"
    /\ Len(monthlyData) = 4
    /\ currentRiskPerTrade = Dollars(485)

\* ------------------------------------------- pool properties, continued

RECURSIVE PendingBag(_)
PendingBag(W) ==
    IF W = {} THEN EmptyBag
    ELSE LET w == CHOOSE x \in W : TRUE
         IN  SeqToBag(PendingFinals(w)) (+) PendingBag(W \ {w})

\* the bag of the final capitals observed (aggregated) so far in this run
ObservedBag == produced (-) PendingBag(DOMAIN workers)

\* the number of copies in bag b of values below v, and of values up to v
CountBelow(b, v) == BagCardinality([u \in {x \in DOMAIN b : x < v} |-> b[u]])
CountUpTo(b, v) == BagCardinality([u \in {x \in DOMAIN b : x <= v} |-> b[u]])

\* the order statistic of 0-based rank k of bag b
OrderStatistic(b, k) ==
    CHOOSE v \in DOMAIN b : CountBelow(b, v) <= k /\ k < CountUpTo(b, v)

IsPrefix(s, t) == Len(s) <= Len(t) /\ \A i \in DOMAIN s : s[i] = t[i]

\* C26 - Reservoir content: in every reachable state the reservoir holds only
\* final capitals observed earlier in the same run and never more than its
\* capacity; no step writes outside the indices [0, capacity) nor shortens
\* it; as long as count <= capacity it holds exactly the observed values, in
\* the order of their observation until the summary sorts them; so a run of
\* no more simulations than the capacity cap replaces nothing and reports
\* percentiles that are the exact order statistics of all observed finals.
C26_ReservoirContent ==
    /\ [](/\ SeqToBag(stats.reservoir) \sqsubseteq ObservedBag
          /\ Len(stats.reservoir) <= sampleSize
          /\ stats.seen = BagCardinality(ObservedBag)
          /\ stats.seen <= sampleSize =>
                /\ Len(stats.reservoir) = stats.seen
                /\ SeqToBag(stats.reservoir) = ObservedBag
          /\ (SummaryComputed /\ simulations <= reservoirCap /\ stats.seen >= 1) =>
                LET n == BagCardinality(ObservedBag)
                IN  /\ summary.percentile10 = OrderStatistic(ObservedBag, (n * 10) \div 100)
                    /\ summary.percentile25 = OrderStatistic(ObservedBag, (n * 25) \div 100)
                    /\ summary.median = OrderStatistic(ObservedBag, (n * 50) \div 100)
                    /\ summary.percentile75 = OrderStatistic(ObservedBag, (n * 75) \div 100)
                    /\ summary.percentile90 = OrderStatistic(ObservedBag, (n * 90) \div 100))
    /\ [][phase = "pool" =>
             /\ Len(stats'.reservoir) >= Len(stats.reservoir)
             /\ Len(stats'.reservoir) <= sampleSize
             /\ (phase' = "pool" /\ stats'.seen <= sampleSize) =>
                   IsPrefix(stats.reservoir, stats'.reservoir)]_vars

\* the summary of a run of exactly as many simulations as the capacity cap,
\* all observed, whose values differ
C26_Witness ==
    /\ phase = "chart"
    /\ simulations = reservoirCap
    /\ stats.seen = simulations
    /\ summary.percentile10 < summary.percentile90

\* C27 - Every spawned worker gets work: each of the poolSize workers
\* spawned received a non-empty first batch, claimed during spawning in the
\* order of the workers; no worker is retired without ever having had a
\* batch; and for totalSims = 0 no worker is spawned at all.
C27_EveryWorkerGetsWork ==
    /\ [](phase # "idle" =>
             /\ Len(workers) = poolSize
             /\ Len(claimed) >= Len(workers)
             /\ \A w \in DOMAIN workers :
                   /\ workers[w].batches >= 1
                   /\ claimed[w][2] >= 1
             /\ simulations = 0 => workers = <<>>)
    /\ [][phase = "idle" =>
             \A w \in DOMAIN workers' :
                /\ workers'[w].status = "busy"
                /\ workers'[w].sims = claimed'[w][2]
                /\ workers'[w].sims >= 1]_vars

\* a pool of as many workers as batches, the last of which got the final,
\* partial batch
C27_Witness ==
    /\ phase = "pool"
    /\ Len(workers) >= 2
    /\ Len(workers) = CeilDiv(simulations, batchSize)
    /\ workers[Len(workers)].sims >= 1
    /\ workers[Len(workers)].sims < batchSize
    /\ \A w \in DOMAIN workers : workers[w].batches = 1 /\ workers[w].status = "busy"

\* the chart-path job failed: its worker raised an error, or the handler of
\* its answer threw, after a pooled run without failure
ChartJobFailed == phase = "hung" /\ ~failed

\* C24 - Chart-sampling failure is independent: when the chart-path job
\* fails after the pooled run completed successfully, an error is surfaced,
\* the run leaves the running state, and the summary statistics already
\* computed are published.
C24_ChartFailureIndependent ==
    ChartJobFailed =>
        /\ errorMsg # "null"
        /\ ~isRunning
        /\ results = summary

\* C29 - Run termination: every started run eventually leaves the running
\* state with results published or an error message set, whatever
\* totalSims >= 0 is and whatever the workers do, the chart worker included.
C29_RunTerminates ==
    isRunning ~> (~isRunning /\ (results # NoResults \/ errorMsg # "null"))

\* ---------------------------------------------- chart job properties

\* the worker has answered the chart request
ChartAnswered == chartPc \in {"answered", "resolved", "thrown"}

\* the element of 0-based rank k of the sorted sample, undefined outside it
AtRank(k) == IF k >= 0 /\ k < Len(sortedResults) THEN sortedResults[k + 1] ELSE Undefined

\* C22 - Path Sampler selection: the chart job asks for one generation pass
\* of n = min(chartSimsCap, totalSims) paths; the worker orders them by
\* finalCapital ascending and returns exactly five entries, the paths at
\* ranks 0, floor(0.25 n), floor(0.5 n), floor(0.75 n) and n - 1 of that
\* order, in this order (an entry is undefined when n = 0 has no such rank).
C22_PathSelection ==
    ChartAnswered =>
        LET n == Len(simResults)
        IN  /\ chartReq.kind = "paths"
            /\ n = (IF runParams.simulations < chartSimsCap
                    THEN runParams.simulations ELSE chartSimsCap)
            /\ chartReq.simulations = n
            /\ Len(sortedResults) = n
            /\ SeqToBag(sortedResults) = SeqToBag(simResults)
            /\ \A i \in 1..(n - 1) :
                  sortedResults[i].finalCapital <= sortedResults[i + 1].finalCapital
            /\ pathsMsg = <<AtRank(0), AtRank((n * 25) \div 100), AtRank((n * 50) \div 100),
                            AtRank((n * 75) \div 100), AtRank(n - 1)>>
            /\ n >= 1 => \A i \in 1..5 : pathsMsg[i] \in {simResults[j] : j \in 1..n}

\* a capped sample, generated out of order, whose first, third and fifth
\* selected paths end at three different capitals
C22_Witness ==
    /\ chartPc = "answered"
    /\ runParams.simulations > chartSimsCap
    /\ Len(simResults) = chartSimsCap
    /\ simResults # sortedResults
    /\ pathsMsg[1].finalCapital < pathsMsg[3].finalCapital
    /\ pathsMsg[3].finalCapital < pathsMsg[5].finalCapital

\* C23 - Chart points: the chart data fetchChartPaths resolves with has
\* exactly timeMonths + 1 points, one per month 0..timeMonths in ascending
\* order, and the point of month m carries under Worst Sim, 25th %ile,
\* Median, 75th %ile, Best Sim the capital at month m of the first to fifth
\* selected path.
C23_ChartPoints ==
    chartPc = "resolved" =>
        /\ Len(chartData) = runParams.timeMonths + 1
        /\ \A m \in 0..runParams.timeMonths :
              LET point == chartData[m + 1]
              IN  /\ DOMAIN point = {"month", "Worst Sim", "25th %ile", "Median",
                                     "75th %ile", "Best Sim"}
                  /\ point["month"] = m
                  /\ point["Worst Sim"] = pathsMsg[1].monthlyData[m + 1].capital
                  /\ point["25th %ile"] = pathsMsg[2].monthlyData[m + 1].capital
                  /\ point["Median"] = pathsMsg[3].monthlyData[m + 1].capital
                  /\ point["75th %ile"] = pathsMsg[4].monthlyData[m + 1].capital
                  /\ point["Best Sim"] = pathsMsg[5].monthlyData[m + 1].capital

\* chart data over more than one month whose series differ from each other
\* and from their month-0 value
C23_Witness ==
    /\ chartPc = "resolved"
    /\ runParams.timeMonths >= 1
    /\ Len(chartData) >= 2
    /\ chartData[2]["Worst Sim"] # chartData[2]["Best Sim"]
    /\ chartData[2]["Median"] # chartData[1]["Median"]

\* the final capitals of the chart sample
SampleFinals == {simResults[j].finalCapital : j \in DOMAIN simResults}

\* C30 - Chart series are ordered at the horizon: for a chart sample of
\* n >= 1 paths the five selected paths have non-decreasing final capital in
\* label order, so the chart point of month timeMonths satisfies Worst Sim
\* <= 25th %ile <= Median <= 75th %ile <= Best Sim, Worst Sim and Best Sim
\* being the minimum and the maximum final capital of the sample.
C30_SeriesOrdered ==
    (chartPc = "resolved" /\ Len(simResults) >= 1) =>
        LET point == chartData[runParams.timeMonths + 1]
        IN  /\ \A i \in 1..4 : pathsMsg[i].finalCapital <= pathsMsg[i + 1].finalCapital
            /\ point["Worst Sim"] <= point["25th %ile"]
            /\ point["25th %ile"] <= point["Median"]
            /\ point["Median"] <= point["75th %ile"]
            /\ point["75th %ile"] <= point["Best Sim"]
            /\ point["Worst Sim"] \in SampleFinals
            /\ point["Best Sim"] \in SampleFinals
            /\ \A v \in SampleFinals : point["Worst Sim"] <= v /\ v <= point["Best Sim"]

\* the chart of a sample generated in descending order of final capital,
\* with worst, median and best all different at the horizon
C30_Witness ==
    /\ chartPc = "resolved"
    /\ Len(simResults) >= 3
    /\ simResults[1].finalCapital > simResults[2].finalCapital
    /\ simResults[2].finalCapital > simResults[3].finalCapital
    /\ chartData[Len(chartData)]["Worst Sim"] < chartData[Len(chartData)]["Median"]
    /\ chartData[Len(chartData)]["Median"] < chartData[Len(chartData)]["Best Sim"]

\* the fields of StrategyParams
ParamFields == {"initialCapital", "riskPercentage", "riskRewardRatio", "winRate",
                "tradesPerMonth", "timeMonths", "riskCapDollars", "compoundingFrequency"}

\* C28 - Params are forwarded unchanged: the chart-path request (built like
\* every batch request) carries the StrategyParams the run was started with,
\* field for field, compoundingFrequency included, whatever the user has
\* typed into the form since the run began.
C28_ParamsForwarded ==
    chartReq.kind = "paths" =>
        \A f \in ParamFields : chartReq.params[f] = runParams[f]

\* ---------------------------------------------- calculator properties

\* the exact quantities of computeTargets, before any rounding
ExactRiskAmount == (calcArgs.accountBalance * calcArgs.riskPercent) \div 100
ExactRiskPerShare == Abs(calcArgs.entryPrice - calcArgs.stopLossPrice)
ExactTarget(i) ==
    IF calcArgs.isLong
    THEN calcArgs.entryPrice + (rrrs[i] * ExactRiskPerShare) \div 2
    ELSE calcArgs.entryPrice - (rrrs[i] * ExactRiskPerShare) \div 2

\* v is x to the nearest multiple of the rounding step
IsRounded(v, x) == v % Quantum = 0 /\ 2 * Abs(v - x) <= Quantum

====
